---- MODULE Spec2Model ----
(***************************************************************************)
(* Face recognition system: the matcher (recognize_face), the gallery      *)
(* store (add / remove / save / load of known faces) and the cooldown      *)
(* gated history recorder of the GUI, modelled from                        *)
(*   src/src/face_recognition_system.py, src/src/face_encoder.py and       *)
(*   src/gui/app.py.                                                       *)
(*                                                                         *)
(* Names are sequences of characters, so that str.replace, str.strip and   *)
(* the file name of a person are computed and not assumed.  An encoding is *)
(* a point on a line; the library's face_distance is the distance between  *)
(* two points, in hundredths.  A confidence is a percentage.  An image or  *)
(* a frame is the sequence of the encodings of the faces detected in it.   *)
(***************************************************************************)
EXTENDS Integers, Sequences, FiniteSets, TLC

\* ------------------------------------------------------------------ bounds
MaxEnc == 2
MaxGallery == 2
MaxFaces == 1
MaxTime == 4
MaxHistory == 2
MaxCooldownChoice == 2
MaxLoops == 2
MaxPersonId == 3
MaxLogs == 2

\* ------------------------------------------------------------------ names
UnknownName == <<"U", "n", "k", "n", "o", "w", "n">>
NameSp == <<"A", " ", "B">>
NameUs == <<"A", "_", "B">>

\* The names a user registers (typed into the name dialog, stripped)
Names == {NameSp, NameUs}

\* the empty string
EmptyName == <<>>

\* str.replace(old, new) for single characters
Replace(s, old, new) == [i \in DOMAIN s |-> IF s[i] = old THEN new ELSE s[i]]

\* name.replace(" ", "_")
SafeName(name) == Replace(name, " ", "_")

\* ------------------------------------------------------------------ matcher
\* 0.6 and 1.0 in hundredths; the factor of the percentage
Threshold == 60
One == 100
Percent == 100

\* The encodings: the points 0, 0.45, 1.05, 1.80, ... of a line, in hundredths
EncAt(k) == ((Threshold \div 4) * k * (k + 5)) \div 2

Encodings == {EncAt(k) : k \in 0 .. MaxEnc}

Abs(x) == IF x < 0 THEN -x ELSE x

\* face_recognition.face_distance(known, query)[i], in hundredths
FaceDistance(e1, e2) == Abs(e1 - e2)

\* face_recognition.face_distance over the whole gallery
FaceDistances(encs, q) == [i \in DOMAIN encs |-> FaceDistance(encs[i], q)]

ArgMinLast(d) ==
  CHOOSE i \in DOMAIN d :
    /\ \A j \in DOMAIN d : d[i] <= d[j]
    /\ \A j \in DOMAIN d : (d[j] = d[i]) => i >= j

\* np.argmin: the first index of the minimum
ArgMin(d) ==
  CHOOSE i \in DOMAIN d :
    /\ \A j \in DOMAIN d : d[i] <= d[j]
    /\ \A j \in DOMAIN d : (d[j] = d[i]) => i <= j

Max(a, b) == IF a >= b THEN a ELSE b

\* max(0.0, (1.0 - distance)) * 100
Confidence(distance) == (Max(0, One - distance) * Percent) \div One

AcceptLe(distance) == distance <= Threshold

\* distance < 0.6
Accept(distance) == distance < Threshold

RecognizeNoGuard(names, encs, q) ==
  LET d == FaceDistances(encs, q)
      i == IF encs = <<>> THEN 0 ELSE ArgMin(d)
      distance == IF encs = <<>> THEN One ELSE d[i]
  IN  IF encs # <<>> /\ Accept(distance)
      THEN [name |-> names[i], confidence |-> Confidence(distance), calls |-> 1]
      ELSE [name |-> UnknownName, confidence |-> 0, calls |-> 1]

\* recognize_face(face_encoding) on the gallery (names, encs): the pair
\* returned, and the number of calls of face_distance it made
RecognizeFace(names, encs, q) ==
  IF Len(encs) > 0
  THEN LET d == FaceDistances(encs, q)
           best_match_index == ArgMin(d)
           distance == d[best_match_index]
       IN  IF Accept(distance)
           THEN [name |-> names[best_match_index],
                 confidence |-> Confidence(distance), calls |-> 1]
           ELSE [name |-> UnknownName, confidence |-> 0, calls |-> 1]
  ELSE [name |-> UnknownName, confidence |-> 0, calls |-> 0]

VARIABLES
  known_face_names,      \* FaceRecognitionSystem.known_face_names
  known_face_encodings,  \* FaceRecognitionSystem.known_face_encodings
  face_encodings,        \* pipeline state: encodings of the processed frame
  face_names,            \* pipeline state: names of the processed frame
  face_confidences,      \* pipeline state: confidences of the processed frame
  logged,                \* the (name, confidence) pairs handed to add_recognition_to_history
  distance_calls,        \* calls of face_distance made for the processed frame
  gallery_file,          \* face_encodings.pkl: whether it exists, and the pickled dict
  image_store,           \* known_faces/: file stem -> the faces of the image in <stem>.jpg
  op,                    \* the operation that ran last
  ret,                   \* what it returned ("None" for no value)
  now,                   \* the wall clock, in ticks
  recognition_history,   \* FaceRecognitionGUI.recognition_history
  last_recognized,       \* FaceRecognitionGUI.last_recognized: name -> time
  recognition_cooldown,  \* FaceRecognitionGUI.recognition_cooldown, in seconds
  auto_save_enabled,     \* FaceRecognitionGUI.auto_save_enabled
  history_csv,           \* data/recognition_history.csv: the records written
  pc_cap,                \* per capture loop: its line in add_recognition_to_history
  call,                  \* per capture loop: the locals of the call in progress
  pc_ui,                 \* UI thread: its line in clear_history
  known_encodings,       \* FaceEncoder.known_encodings
  known_names,           \* FaceEncoder.known_names
  encoder_file,          \* the file FaceEncoder saves to and loads from
  persons,               \* table persons: rows (id, name, image_path)
  recognition_logs,      \* table recognition_logs: rows (person_id, confidence), by id
  person_seq,            \* sqlite_sequence of persons: the largest id ever given
  last_person_id,        \* what add_person returned last
  pc_db,                 \* per capture loop: its statement in log_recognition
  db_call,               \* per capture loop: the locals of log_recognition
  pc_del,                \* UI thread: its statement in delete_person
  del_call,              \* UI thread: the locals of delete_person
  is_running,            \* FaceRecognitionGUI.is_running
  cap,                   \* FaceRecognitionGUI.cap: None, or the VideoCapture's state
  video_label,           \* what the video label shows
  start_btn,             \* state of the Start Camera button
  face_locations,        \* pipeline state: locations of the processed frame
  pc_loop,               \* per capture loop: its line in video_loop
  loop,                  \* per capture loop: the locals of video_loop
  ui_call                \* UI thread: the locals of stop_camera and remove_face

galleryVars == <<known_face_names, known_face_encodings>>
diskVars == <<gallery_file, image_store>>
callVars == <<op, ret>>
pipeVars == <<face_encodings, face_names, face_confidences, logged, distance_calls>>
histVars == <<now, recognition_history, last_recognized, recognition_cooldown,
              auto_save_enabled, history_csv, pc_cap, call, pc_ui>>
encoderVars == <<known_encodings, known_names, encoder_file>>
dbVars == <<persons, recognition_logs, person_seq, last_person_id, pc_db, db_call,
            pc_del, del_call>>
camVars == <<is_running, cap, video_label, start_btn, face_locations, pc_loop, loop,
             ui_call>>
vars == <<galleryVars, diskVars, callVars, pipeVars, histVars, encoderVars, dbVars, camVars>>

\* sequences over S of length at most n
SeqUpTo(S, n) == UNION {[1 .. k -> S] : k \in 0 .. n}

RECURSIVE SumSeq(_)
SumSeq(s) == IF s = <<>> THEN 0 ELSE Head(s) + SumSeq(Tail(s))

\* ------------------------------------------------------- history recorder
\* ticks of the clock in a second: datetime.now() is finer than the "%S" of
\* a record's timestamp
TicksPerSecond == 2

\* self.recognition_cooldown = 5
DefaultCooldown == 5

\* the capture loops that can be alive at once
Loops == 1 .. MaxLoops

NoCall == [name |-> EmptyName, confidence |-> 0, current_time |-> 0,
           time_diff |-> 0, entry_len |-> 0, entry_last |-> -1]

EmptyMap == [n \in {} |-> 0]

\* FaceRecognitionGUI.__init__ for the history state, with no history file
InitHist ==
  /\ now = 0
  /\ recognition_history = <<>>
  /\ last_recognized = EmptyMap
  /\ recognition_cooldown = DefaultCooldown
  /\ auto_save_enabled = TRUE
  /\ history_csv = <<>>
  /\ pc_cap = [t \in Loops |-> "idle"]
  /\ call = [t \in Loops |-> NoCall]
  /\ pc_ui = "idle"

NoDbCall == [name |-> EmptyName, confidence |-> 0, person_id |-> 0]

\* DatabaseManager.init_database on a new file: the tables are empty
InitDb ==
  /\ persons = {}
  /\ recognition_logs = <<>>
  /\ person_seq = 0
  /\ last_person_id = 0
  /\ pc_db = [t \in Loops |-> "idle"]
  /\ db_call = [t \in Loops |-> NoDbCall]
  /\ pc_del = "idle"
  /\ del_call = NoDbCall

NoLoop == [frame_count |-> 0, frame |-> <<>>, iter |-> <<>>, name |-> EmptyName,
           confidence |-> 0]

NoUiCall == [name |-> EmptyName, idx |-> 0, closing |-> FALSE]

\* FaceRecognitionGUI.__init__ for the camera: no capture, no loop, the
\* Start button enabled
InitCam ==
  /\ is_running = FALSE
  /\ cap = "None"
  /\ video_label = "init"
  /\ start_btn = "normal"
  /\ face_locations = <<>>
  /\ pc_loop = [t \in Loops |-> "none"]
  /\ loop = [t \in Loops |-> NoLoop]
  /\ ui_call = NoUiCall

\* FaceEncoder.__init__, and no file written yet
InitEncoder ==
  /\ known_encodings = <<>>
  /\ known_names = <<>>
  /\ encoder_file = [exists |-> FALSE, data |-> <<>>]

\* ------------------------------------------------------- the matcher's spec
\* FaceRecognitionSystem.__init__ for the pipeline state
InitPipe ==
  /\ face_encodings = <<>>
  /\ face_names = <<>>
  /\ face_confidences = <<>>
  /\ logged = <<>>
  /\ distance_calls = 0

\* the gallery is any index-aligned gallery
InitMatch ==
  /\ \E k \in 0 .. MaxGallery :
       /\ known_face_names \in [1 .. k -> {NameSp, NameUs, UnknownName}]
       /\ known_face_encodings \in [1 .. k -> Encodings]
  /\ InitPipe
  /\ gallery_file = [exists |-> FALSE, data |-> <<>>]
  /\ image_store = [f \in {} |-> <<>>]
  /\ op = "init"
  /\ ret = "None"
  /\ InitHist
  /\ InitEncoder
  /\ InitDb
  /\ InitCam

\* name != "Unknown" and confidence > 0
IsLogged(r) == r.name # UnknownName /\ r.confidence > 0

RECURSIVE SelectLogged(_)
SelectLogged(rs) ==
  IF rs = <<>> THEN <<>>
  ELSE LET h == Head(rs)
       IN  (IF IsLogged(h) THEN <<[name |-> h.name, confidence |-> h.confidence]>>
            ELSE <<>>) \o SelectLogged(Tail(rs))

\* video_loop on a processed frame: the encodings of the faces found, then
\* recognize_face on each, the recognised ones handed to the history recorder
ProcessFrame ==
  \E encs \in SeqUpTo(Encodings, MaxFaces) :
    LET rs == [i \in DOMAIN encs |->
                 RecognizeFace(known_face_names, known_face_encodings, encs[i])]
    IN  /\ face_encodings' = encs
        /\ face_names' = [i \in DOMAIN encs |-> rs[i].name]
        /\ face_confidences' = [i \in DOMAIN encs |-> rs[i].confidence]
        /\ logged' = SelectLogged(rs)
        /\ distance_calls' = SumSeq([i \in DOMAIN encs |-> rs[i].calls])
        /\ op' = "video_loop"
        /\ ret' = "None"
        /\ UNCHANGED <<galleryVars, diskVars, histVars, encoderVars, dbVars, camVars>>

NextMatch == ProcessFrame

SpecMatch == InitMatch /\ [][NextMatch]_vars

\* ------------------------------------------------- claims on the matcher
\* the distances from the gallery to face i of the processed frame
DistsOf(i) == {FaceDistance(known_face_encodings[k], face_encodings[i]) :
                 k \in DOMAIN known_face_encodings}

\* the minimum distance from the gallery to face i (the gallery is not empty)
MinDist(i) == CHOOSE d \in DistsOf(i) : \A e \in DistsOf(i) : d <= e

\* the lowest index of the gallery at the minimum distance from face i
FirstBest(i) ==
  CHOOSE k \in DOMAIN known_face_encodings :
    /\ FaceDistance(known_face_encodings[k], face_encodings[i]) = MinDist(i)
    /\ \A j \in 1 .. k - 1 :
         FaceDistance(known_face_encodings[j], face_encodings[i]) > MinDist(i)

Aligned ==
  /\ Len(known_face_names) = Len(known_face_encodings)
  /\ Len(face_names) = Len(face_encodings)
  /\ Len(face_confidences) = Len(face_encodings)

\* C3: a face whose minimum distance to the gallery is >= 0.6 (a derived
\* confidence <= 40) is returned as ("Unknown", 0), the distance 0.6 itself
\* included; a name other than "Unknown" is returned only for a minimum
\* distance strictly below 0.6.
C3_ThresholdExclusive ==
  /\ Aligned
  /\ \A i \in DOMAIN face_encodings :
       known_face_encodings # <<>> =>
         /\ (MinDist(i) >= Threshold \/ One - MinDist(i) <= One - Threshold) =>
              (face_names[i] = UnknownName /\ face_confidences[i] = 0)
         /\ face_names[i] # UnknownName => MinDist(i) < Threshold

C3_Witness ==
  \E i \in DOMAIN face_encodings :
    /\ known_face_encodings # <<>>
    /\ MinDist(i) = Threshold
    /\ face_names[i] = UnknownName
    /\ face_confidences[i] = 0

\* C4: with an empty gallery every face of a frame is ("Unknown", 0) and
\* face_distance is never called.
C4_EmptyGallery ==
  known_face_encodings = <<>> =>
    /\ \A i \in DOMAIN face_encodings :
         i \in DOMAIN face_names /\ i \in DOMAIN face_confidences
         /\ face_names[i] = UnknownName /\ face_confidences[i] = 0
    /\ distance_calls = 0
    /\ logged = <<>>

C4_Witness ==
  /\ known_face_encodings = <<>>
  /\ Len(face_encodings) >= 1
  /\ Len(face_names) = Len(face_encodings)

\* C5: with a non-empty gallery the entry chosen is the lowest index at the
\* minimum distance; if that distance d is < 0.6 the name returned is that
\* entry's and the confidence is (1 - d) * 100, so distance 0 gives 100.
C5_BestMatch ==
  /\ Aligned
  /\ \A i \in DOMAIN face_encodings :
       (known_face_encodings # <<>> /\ MinDist(i) < Threshold) =>
         /\ face_names[i] = known_face_names[FirstBest(i)]
         /\ face_confidences[i] * One = (One - MinDist(i)) * Percent
         /\ MinDist(i) = 0 => face_confidences[i] = Percent

\* a tie between two entries of different names, decided for the first
C5_Witness ==
  \E i \in DOMAIN face_encodings :
    /\ Len(known_face_encodings) >= 2
    /\ MinDist(i) < Threshold
    /\ \E k \in DOMAIN known_face_encodings :
         /\ k > FirstBest(i)
         /\ FaceDistance(known_face_encodings[k], face_encodings[i]) = MinDist(i)
         /\ known_face_names[k] # known_face_names[FirstBest(i)]
    /\ face_names[i] = known_face_names[FirstBest(i)]

\* C6: every confidence stored in face_confidences or handed to the history
\* recorder lies in [0, 100]; a name other than "Unknown" has a confidence
\* above 40, and the name "Unknown" has the confidence 0.
C6_ConfidenceRange ==
  /\ \A i \in DOMAIN face_confidences :
       /\ face_confidences[i] >= 0 /\ face_confidences[i] <= Percent
       /\ face_names[i] # UnknownName =>
            face_confidences[i] * One > (One - Threshold) * Percent
       /\ face_names[i] = UnknownName => face_confidences[i] = 0
  /\ \A i \in DOMAIN logged :
       logged[i].confidence >= 0 /\ logged[i].confidence <= Percent

\* ------------------------------------------------------------ gallery store
\* A frame or an image: the encodings of the faces detected in it, in the
\* order face_recognition.face_encodings returns them
Frames == {<<>>, <<EncAt(0)>>, <<EncAt(1), EncAt(0)>>}

\* An image file handed to add_face_from_image: Image.open raises on an
\* unreadable one
ImageFiles ==
  {[readable |-> FALSE, faces |-> <<>>]} \cup
  {[readable |-> TRUE, faces |-> f] : f \in Frames}

NoFile == [exists |-> FALSE, data |-> <<>>]
EmptyStore == [f \in {} |-> <<>>]

\* pil_image.save(filename): create or overwrite
WriteImage(store, stem, faces) ==
  [f \in DOMAIN store \cup {stem} |-> IF f = stem THEN faces ELSE store[f]]

\* if os.path.exists(path): os.remove(path)
DeleteImage(store, stem) == [f \in DOMAIN store \ {stem} |-> store[f]]

\* pickle.dump of {"names": ..., "encodings": ...}: the dict's items in
\* insertion order
PickleDumpNamesOnly(names, encs) ==
  <<[k |-> "names", v |-> names], [k |-> "encodings", v |-> <<>>]>>

PickleDump(names, encs) ==
  <<[k |-> "names", v |-> names], [k |-> "encodings", v |-> encs]>>

HasKey(data, key) == \E i \in DOMAIN data : data[i].k = key

\* data[key]
GetKey(data, key) == data[CHOOSE i \in DOMAIN data : data[i].k = key].v

SavedFileOlder(names, encs) ==
  [exists |-> TRUE,
   data |-> PickleDump(SubSeq(names, 1, Len(names) - 1), SubSeq(encs, 1, Len(encs) - 1))]

\* save_encodings: the file after the call
SavedFile(names, encs) == [exists |-> TRUE, data |-> PickleDump(names, encs)]

\* load_encodings on `file` from the gallery (names, encs): the gallery after
\* the call and the value returned.  The two assignments are made in turn, so
\* a missing "encodings" raises after the names were replaced.
LoadedGallery(file, names, encs) ==
  IF ~file.exists THEN [names |-> names, encodings |-> encs, ret |-> "False"]
  ELSE IF ~HasKey(file.data, "names")
  THEN [names |-> names, encodings |-> encs, ret |-> "False"]
  ELSE IF ~HasKey(file.data, "encodings")
  THEN [names |-> GetKey(file.data, "names"), encodings |-> encs, ret |-> "False"]
  ELSE [names |-> GetKey(file.data, "names"),
        encodings |-> GetKey(file.data, "encodings"), ret |-> "True"]

\* list.index(name)
IndexOf(seq, x) == CHOOSE i \in DOMAIN seq : seq[i] = x /\ \A j \in 1 .. i - 1 : seq[j] # x

\* del list[idx]
RemoveAtNext(seq, idx) ==
  [i \in 1 .. Len(seq) - 1 |-> IF i < idx + 1 THEN seq[i] ELSE seq[i + 1]]

RemoveAt(seq, idx) ==
  [i \in 1 .. Len(seq) - 1 |-> IF i < idx THEN seq[i] ELSE seq[i + 1]]

Range(seq) == {seq[i] : i \in DOMAIN seq}

\* the orders in which os.listdir may return the files of S
Orders(S) ==
  {p \in [1 .. Cardinality(S) -> S] : \A i, j \in DOMAIN p : p[i] = p[j] => i = j}

\* ---------------------------------------------- rows of the persons table
\* the image paths add_person is given: known_faces/<stem>.jpg
ImagePaths == {NameUs, NameSp}

\* SELECT id FROM persons WHERE name = ?; fetchone(): 0 stands for None
SelectId(rows, name) ==
  IF \E r \in rows : r.name = name
  THEN (CHOOSE r \in rows : r.name = name).id
  ELSE 0

InsertOrReplacePerson(rows, seq, name, image_path) ==
  [persons |-> {r \in rows : r.name # name}
                 \cup {[id |-> seq + 1, name |-> name, image_path |-> image_path]},
   seq |-> seq + 1, id |-> seq + 1]

\* add_person: INSERT INTO persons, commit, lastrowid; on the IntegrityError
\* of the UNIQUE name, the id of the row there is
InsertPerson(rows, seq, name, image_path) ==
  IF \E r \in rows : r.name = name
  THEN [persons |-> rows, seq |-> seq, id |-> SelectId(rows, name)]
  ELSE [persons |-> rows \cup {[id |-> seq + 1, name |-> name,
                                image_path |-> image_path]},
        seq |-> seq + 1, id |-> seq + 1]

\* DELETE FROM recognition_logs WHERE person_id = ?: the rows that stay
RECURSIVE SelectRows(_, _)
SelectRows(rows, person_id) ==
  IF rows = <<>> THEN <<>>
  ELSE (IF Head(rows).person_id # person_id THEN <<Head(rows)>> ELSE <<>>)
       \o SelectRows(Tail(rows), person_id)

\* the rows add_person leaves, the counter and the id it returns
AddPersonRow(name, image_path) ==
  LET r == InsertPerson(persons, person_seq, name, image_path)
  IN  /\ persons' = r.persons
      /\ person_seq' = r.seq
      /\ last_person_id' = r.id

\* delete_person run from SELECT to close with no other connection writing
DeletePersonRows(name) ==
  LET person_id == SelectId(persons, name)
  IN  IF person_id # 0
      THEN /\ recognition_logs' = SelectRows(recognition_logs, person_id)
           /\ persons' = {r \in persons : r.id # person_id}
      ELSE UNCHANGED <<persons, recognition_logs>>

\* FaceRecognitionSystem.__init__, with the disk a first start finds: no
\* gallery file, and an image folder that is empty or holds one image the
\* user put there under the person's name
InitGallery ==
  /\ known_face_names = <<>>
  /\ known_face_encodings = <<>>
  /\ InitPipe
  /\ gallery_file = NoFile
  /\ image_store \in {EmptyStore, WriteImage(EmptyStore, NameSp, <<EncAt(1)>>)}
  /\ op = "init"
  /\ ret = "None"
  /\ InitHist
  /\ InitEncoder
  /\ InitDb
  /\ InitCam

\* the body of add_face_from_frame: every face found is accepted, the first
\* encoding is the one added
AddFromFrame(frame, name) ==
  IF frame # <<>>
  THEN /\ image_store' = WriteImage(image_store, SafeName(name), frame)
       /\ known_face_encodings' = Append(known_face_encodings, frame[1])
       /\ known_face_names' = Append(known_face_names, name)
       /\ gallery_file' = SavedFile(known_face_names', known_face_encodings')
       /\ ret' = "True"
  ELSE /\ ret' = "False"
       /\ UNCHANGED <<galleryVars, diskVars>>

\* the body of add_face_from_image: an unreadable image raises and the
\* exception is caught
AddFromImage(img, name) ==
  IF img.readable /\ img.faces # <<>>
  THEN /\ image_store' = WriteImage(image_store, SafeName(name), img.faces)
       /\ known_face_encodings' = Append(known_face_encodings, img.faces[1])
       /\ known_face_names' = Append(known_face_names, name)
       /\ gallery_file' = SavedFile(known_face_names', known_face_encodings')
       /\ ret' = "True"
  ELSE /\ ret' = "False"
       /\ UNCHANGED <<galleryVars, diskVars>>

\* the body of remove_face; with fewer encodings than names the second del
\* raises IndexError after the name is gone, and nothing catches it
RemoveEntry(name) ==
  IF name \in Range(known_face_names)
       /\ IndexOf(known_face_names, name) > Len(known_face_encodings)
  THEN /\ known_face_names' = RemoveAt(known_face_names, IndexOf(known_face_names, name))
       /\ ret' = "raise"
       /\ UNCHANGED <<known_face_encodings, diskVars>>
  ELSE IF name \in Range(known_face_names)
  THEN LET idx == IndexOf(known_face_names, name)
       IN  /\ known_face_names' = RemoveAt(known_face_names, idx)
           /\ known_face_encodings' = RemoveAt(known_face_encodings, idx)
           /\ image_store' = DeleteImage(DeleteImage(image_store, name), SafeName(name))
           /\ gallery_file' = SavedFile(known_face_names', known_face_encodings')
           /\ ret' = "True"
  ELSE /\ ret' = "False"
       /\ UNCHANGED <<galleryVars, diskVars>>

HasRoom ==
  Len(known_face_names) < MaxGallery /\ Len(known_face_encodings) < MaxGallery

AddFaceFromFrame(frame, name) ==
  /\ HasRoom
  /\ AddFromFrame(frame, name)
  /\ op' = "add_face_from_frame"
  /\ UNCHANGED <<pipeVars, histVars, encoderVars, dbVars, camVars>>

AddFaceFromImage(img, name) ==
  /\ HasRoom
  /\ AddFromImage(img, name)
  /\ op' = "add_face_from_image"
  /\ UNCHANGED <<pipeVars, histVars, encoderVars, dbVars, camVars>>

\* capture_new_face (console): one face exactly, a name that is not empty;
\* the image is written before the face is encoded
CaptureNewFace(frame, name) ==
  /\ HasRoom
  /\ IF Len(frame) = 0 \/ Len(frame) > 1 \/ name = EmptyName
     THEN UNCHANGED <<galleryVars, diskVars>>
     ELSE /\ image_store' = WriteImage(image_store, SafeName(name), frame)
          /\ known_face_encodings' = Append(known_face_encodings, frame[1])
          /\ known_face_names' = Append(known_face_names, name)
          /\ gallery_file' = SavedFile(known_face_names', known_face_encodings')
  /\ op' = "capture_new_face"
  /\ ret' = "None"
  /\ UNCHANGED <<pipeVars, histVars, encoderVars, dbVars, camVars>>

\* capture_face (GUI, camera running): the frame is checked for exactly one
\* face, the name asked for, then add_face_from_frame and, when it returned
\* True, db_manager.add_person
GuiCaptureFace(frame, name) ==
  /\ HasRoom
  /\ person_seq < MaxPersonId
  /\ IF Len(frame) = 0 \/ Len(frame) > 1 \/ name = EmptyName
     THEN ret' = "None" /\ UNCHANGED <<galleryVars, diskVars>>
     ELSE AddFromFrame(frame, name)
  /\ IF ret' = "True"
     THEN AddPersonRow(name, SafeName(name))
     ELSE UNCHANGED <<persons, person_seq, last_person_id>>
  /\ op' = "capture_face"
  /\ UNCHANGED <<pipeVars, histVars, encoderVars, camVars, recognition_logs, pc_db,
                 db_call, pc_del, del_call>>

\* add_face_dialog (GUI): a file and a name are asked for, then
\* add_face_from_image and, when it returned True, db_manager.add_person
GuiAddFaceDialog(img, name) ==
  /\ HasRoom
  /\ person_seq < MaxPersonId
  /\ IF name = EmptyName
     THEN ret' = "None" /\ UNCHANGED <<galleryVars, diskVars>>
     ELSE AddFromImage(img, name)
  /\ IF ret' = "True"
     THEN AddPersonRow(name, SafeName(name))
     ELSE UNCHANGED <<persons, person_seq, last_person_id>>
  /\ op' = "add_face_dialog"
  /\ UNCHANGED <<pipeVars, histVars, encoderVars, camVars, recognition_logs, pc_db,
                 db_call, pc_del, del_call>>

RemoveFace(name) ==
  /\ RemoveEntry(name)
  /\ op' = "remove_face"
  /\ UNCHANGED <<pipeVars, histVars, encoderVars, dbVars, camVars>>

\* load_known_faces: every image of the folder in which a face is found adds
\* (first encoding, file stem with "_" replaced by " ")
RECURSIVE LoadedNames(_, _)
LoadedNames(store, order) ==
  IF order = <<>> THEN <<>>
  ELSE (IF store[Head(order)] # <<>>
        THEN <<Replace(Head(order), "_", " ")>> ELSE <<>>)
       \o LoadedNames(store, Tail(order))

RECURSIVE LoadedEncodings(_, _)
LoadedEncodings(store, order) ==
  IF order = <<>> THEN <<>>
  ELSE (IF store[Head(order)] # <<>> THEN <<store[Head(order)][1]>> ELSE <<>>)
       \o LoadedEncodings(store, Tail(order))

LoadKnownFaces ==
  /\ Len(known_face_names) + Cardinality(DOMAIN image_store) <= MaxGallery
  /\ Len(known_face_encodings) + Cardinality(DOMAIN image_store) <= MaxGallery
  /\ IF DOMAIN image_store = {}
     THEN ret' = "False" /\ UNCHANGED galleryVars
     ELSE \E order \in Orders(DOMAIN image_store) :
            /\ known_face_names' = known_face_names \o LoadedNames(image_store, order)
            /\ known_face_encodings' =
                 known_face_encodings \o LoadedEncodings(image_store, order)
            /\ ret' = IF Len(known_face_names') > 0 THEN "True" ELSE "False"
  /\ op' = "load_known_faces"
  /\ UNCHANGED <<diskVars, pipeVars, histVars, encoderVars, dbVars, camVars>>

SaveEncodings ==
  /\ gallery_file' = SavedFile(known_face_names, known_face_encodings)
  /\ op' = "save_encodings"
  /\ ret' = "None"
  /\ UNCHANGED <<galleryVars, image_store, pipeVars, histVars, encoderVars, dbVars, camVars>>

LoadEncodings ==
  LET r == LoadedGallery(gallery_file, known_face_names, known_face_encodings)
  IN  /\ known_face_names' = r.names
      /\ known_face_encodings' = r.encodings
      /\ ret' = r.ret
      /\ op' = "load_encodings"
      /\ UNCHANGED <<diskVars, pipeVars, histVars, encoderVars, dbVars, camVars>>

NextGallery ==
  \/ \E f \in Frames, n \in Names : AddFaceFromFrame(f, n)
  \/ \E i \in ImageFiles, n \in Names : AddFaceFromImage(i, n)
  \/ \E f \in Frames, n \in Names \cup {EmptyName} : CaptureNewFace(f, n)
  \/ \E f \in Frames, n \in Names \cup {EmptyName} : GuiCaptureFace(f, n)
  \/ \E i \in ImageFiles, n \in Names \cup {EmptyName} : GuiAddFaceDialog(i, n)
  \/ \E n \in Names : RemoveFace(n)
  \/ LoadKnownFaces
  \/ SaveEncodings
  \/ LoadEncodings

SpecGallery == InitGallery /\ [][NextGallery]_vars

\* ------------------------------------------- claims on the gallery store
\* seq without its k-th element
Without(seq, k) == SubSeq(seq, 1, k - 1) \o SubSeq(seq, k + 1, Len(seq))

\* C7: every add-face operation rejects an input in which no face or more
\* than one face is detected, leaving names, encodings, gallery file and
\* image store as they were; a face is added only for exactly one face.
C7_RejectsNotOneFace ==
  [][/\ \A f \in Frames, n \in Names :
          (Len(f) # 1 /\ (AddFaceFromFrame(f, n) \/ GuiCaptureFace(f, n)
                           \/ CaptureNewFace(f, n))) =>
            (ret' # "True" /\ UNCHANGED <<galleryVars, diskVars>>)
     /\ \A i \in ImageFiles, n \in Names :
          (Len(i.faces) # 1 /\ (AddFaceFromImage(i, n) \/ GuiAddFaceDialog(i, n))) =>
            (ret' # "True" /\ UNCHANGED <<galleryVars, diskVars>>)]_vars

\* C8: remove_face of a name that is not in the gallery returns False and
\* changes nothing; of a name in it, returns True, removes one name and one
\* encoding from the same index, and leaves no image file under the raw name
\* nor under the name with underscores.
C8_RemoveFace ==
  [][\A n \in Names :
       RemoveFace(n) =>
         IF n \notin Range(known_face_names)
         THEN ret' = "False" /\ UNCHANGED <<galleryVars, diskVars>>
         ELSE /\ ret' = "True"
              /\ Len(known_face_names') = Len(known_face_names) - 1
              /\ Len(known_face_encodings') = Len(known_face_encodings) - 1
              /\ \E k \in DOMAIN known_face_names :
                   /\ known_face_names[k] = n
                   /\ known_face_names' = Without(known_face_names, k)
                   /\ known_face_encodings' = Without(known_face_encodings, k)
              /\ n \notin DOMAIN image_store'
              /\ SafeName(n) \notin DOMAIN image_store']_vars

\* remove_face returned True on a gallery of two entries and left one
C8_Witness ==
  /\ op = "remove_face"
  /\ ret = "True"
  /\ Len(known_face_names) = 1
  /\ Len(known_face_encodings) = 1
  /\ gallery_file = SavedFile(known_face_names, known_face_encodings)

\* str.lower() on the characters used
LowerChar(c) ==
  IF c = "A" THEN "a" ELSE IF c = "B" THEN "b" ELSE IF c = "U" THEN "u" ELSE c

RECURSIVE StripLeft(_)
StripLeft(s) == IF s # <<>> /\ Head(s) = " " THEN StripLeft(Tail(s)) ELSE s

RECURSIVE StripRight(_)
StripRight(s) ==
  IF s # <<>> /\ s[Len(s)] = " " THEN StripRight(SubSeq(s, 1, Len(s) - 1)) ELSE s

\* the normalisation names are compared under: lower case, stripped
Normalised(name) == StripRight(StripLeft([i \in DOMAIN name |-> LowerChar(name[i])]))

\* C10: no two entries of known_face_names are equal after lower-casing and
\* stripping; adding a registered name again makes no second entry.
C10_UniqueNames ==
  \A i, j \in DOMAIN known_face_names :
    i # j => Normalised(known_face_names[i]) # Normalised(known_face_names[j])

\* --------------------------------------------- history recorder: the threads
\* the values the cooldown dialog is made to return (askinteger, 1 .. 60)
CooldownChoices == 1 .. MaxCooldownChoice

\* strftime("%Y-%m-%d %H:%M:%S"): the time cut to the second
Timestamp(t) == t \div TicksPerSecond

\* the record built at lines 359-365
Record(c) == [timestamp |-> Timestamp(c.current_time), name |-> c.name,
              confidence |-> c.confidence]

WithinCooldownLe(time_diff, cooldown) == time_diff <= cooldown * TicksPerSecond

\* time_diff < self.recognition_cooldown
WithinCooldown(time_diff, cooldown) == time_diff < cooldown * TicksPerSecond

\* dict[key] = value
Put(map, key, value) ==
  [k \in DOMAIN map \cup {key} |-> IF k = key THEN value ELSE map[k]]

capCore == <<galleryVars, diskVars, callVars, pipeVars, encoderVars, dbVars, now,
             recognition_cooldown, auto_save_enabled, pc_ui>>
capOnly == <<capCore, camVars>>

\* the clock advances
Tick ==
  /\ now < MaxTime
  /\ now' = now + 1
  /\ UNCHANGED <<galleryVars, diskVars, callVars, pipeVars, encoderVars, dbVars, camVars,
                 recognition_history,
                 last_recognized, recognition_cooldown, auto_save_enabled,
                 history_csv, pc_cap, call, pc_ui>>

\* add_recognition_to_history(name, confidence) is entered by loop t;
\* line 350: current_time = datetime.now()
HistEnter(t, name, confidence) ==
  /\ pc_cap[t] = "idle"
  /\ Len(recognition_history) < MaxHistory
  /\ call' = [call EXCEPT ![t] =
                [name |-> name, confidence |-> confidence, current_time |-> now,
                 time_diff |-> 0, entry_len |-> Len(recognition_history),
                 entry_last |-> IF name \in DOMAIN last_recognized
                                THEN last_recognized[name] ELSE -1]]
  /\ pc_cap' = [pc_cap EXCEPT ![t] = "L353"]
  /\ UNCHANGED <<capCore, recognition_history, last_recognized, history_csv>>

\* video_loop calls add_recognition_to_history with a recognised face
AddRecognitionToHistory(t, name, confidence) ==
  /\ HistEnter(t, name, confidence)
  /\ UNCHANGED camVars

\* line 353: if name in self.last_recognized
HistCheck353(t) ==
  /\ pc_cap[t] = "L353"
  /\ pc_cap' = [pc_cap EXCEPT ![t] = IF call[t].name \in DOMAIN last_recognized THEN "L354" ELSE "L367"]
  /\ UNCHANGED <<capOnly, recognition_history, last_recognized, history_csv, call>>

\* line 354: time_diff = current_time - self.last_recognized[name]; a name
\* removed since line 353 raises KeyError, caught at line 376
HistDiff354(t) ==
  /\ pc_cap[t] = "L354"
  /\ IF call[t].name \in DOMAIN last_recognized
     THEN /\ call' = [call EXCEPT ![t].time_diff =
                        call[t].current_time - last_recognized[call[t].name]]
          /\ pc_cap' = [pc_cap EXCEPT ![t] = "L355"]
     ELSE /\ call' = [call EXCEPT ![t] = NoCall]
          /\ pc_cap' = [pc_cap EXCEPT ![t] = "idle"]
  /\ UNCHANGED <<capOnly, recognition_history, last_recognized, history_csv>>

\* lines 355-356: within the cooldown the call returns
HistCooldown355(t) ==
  /\ pc_cap[t] = "L355"
  /\ IF WithinCooldown(call[t].time_diff, recognition_cooldown)
     THEN pc_cap' = [pc_cap EXCEPT ![t] = "idle"] /\ call' = [call EXCEPT ![t] = NoCall]
     ELSE pc_cap' = [pc_cap EXCEPT ![t] = "L367"] /\ call' = call
  /\ UNCHANGED <<capOnly, recognition_history, last_recognized, history_csv>>

\* line 367: self.recognition_history.append(record).  Appending to a list
\* object fetched just before clear_history replaced it gives the state of
\* the interleaving in which the append comes before line 1041.
HistAppend367(t) ==
  /\ pc_cap[t] = "L367"
  /\ recognition_history' = Append(recognition_history, Record(call[t]))
  /\ pc_cap' = [pc_cap EXCEPT ![t] = "L368"]
  /\ UNCHANGED <<capOnly, last_recognized, history_csv, call>>

\* line 368: self.last_recognized[name] = current_time
HistStamp368(t) ==
  /\ pc_cap[t] = "L368"
  /\ last_recognized' = Put(last_recognized, call[t].name, call[t].current_time)
  /\ pc_cap' = [pc_cap EXCEPT ![t] = "L371"]
  /\ UNCHANGED <<capOnly, recognition_history, history_csv, call>>

\* line 371: if self.auto_save_enabled
HistAutoSave371(t) ==
  /\ pc_cap[t] = "L371"
  /\ IF auto_save_enabled
     THEN pc_cap' = [pc_cap EXCEPT ![t] = "save"] /\ call' = call
     ELSE pc_cap' = [pc_cap EXCEPT ![t] = "idle"] /\ call' = [call EXCEPT ![t] = NoCall]
  /\ UNCHANGED <<capOnly, recognition_history, last_recognized, history_csv>>

HistSaveLast372(t) ==
  /\ pc_cap[t] = "save"
  /\ history_csv' = Append(history_csv, Record(call[t]))
  /\ pc_cap' = [pc_cap EXCEPT ![t] = "idle"]
  /\ call' = [call EXCEPT ![t] = NoCall]
  /\ UNCHANGED <<capOnly, recognition_history, last_recognized>>

\* line 372: save_history() rewrites the file with the whole list
HistSave372(t) ==
  /\ pc_cap[t] = "save"
  /\ history_csv' = recognition_history
  /\ pc_cap' = [pc_cap EXCEPT ![t] = "idle"]
  /\ call' = [call EXCEPT ![t] = NoCall]
  /\ UNCHANGED <<capOnly, recognition_history, last_recognized>>

uiOnly == <<galleryVars, diskVars, callVars, pipeVars, encoderVars, dbVars, camVars, now,
            pc_cap, call>>

\* clear_history, line 1041: self.recognition_history = []
ClearHistory1041 ==
  /\ pc_ui = "idle"
  /\ recognition_history' = <<>>
  /\ pc_ui' = "L1042"
  /\ UNCHANGED <<uiOnly, last_recognized, recognition_cooldown, auto_save_enabled,
                 history_csv>>

\* clear_history, line 1042: self.last_recognized = {}
ClearHistory1042 ==
  /\ pc_ui = "L1042"
  /\ last_recognized' = EmptyMap
  /\ pc_ui' = "L1043"
  /\ UNCHANGED <<uiOnly, recognition_history, recognition_cooldown, auto_save_enabled,
                 history_csv>>

\* clear_history, line 1043: self.save_history()
ClearHistory1043 ==
  /\ pc_ui = "L1043"
  /\ history_csv' = recognition_history
  /\ pc_ui' = "idle"
  /\ UNCHANGED <<uiOnly, recognition_history, last_recognized, recognition_cooldown,
                 auto_save_enabled>>

\* set_cooldown: the dialog returns an integer
SetCooldown(cooldown) ==
  /\ pc_ui = "idle"
  /\ recognition_cooldown' = cooldown
  /\ UNCHANGED <<uiOnly, recognition_history, last_recognized, auto_save_enabled,
                 history_csv, pc_ui>>

\* toggle_auto_save: the Checkbutton's new value
ToggleAutoSave ==
  /\ pc_ui = "idle"
  /\ auto_save_enabled' = ~auto_save_enabled
  /\ UNCHANGED <<uiOnly, recognition_history, last_recognized, recognition_cooldown,
                 history_csv, pc_ui>>

\* the confidences of the events handed over
EventConfidences == {Confidence(EncAt(1))}

CaptureStep ==
  \/ \E n \in Names, c \in EventConfidences : AddRecognitionToHistory(1, n, c)
  \/ HistCheck353(1)
  \/ HistDiff354(1)
  \/ HistCooldown355(1)
  \/ HistAppend367(1)
  \/ HistStamp368(1)
  \/ HistAutoSave371(1)
  \/ HistSave372(1)

InitHistory ==
  /\ known_face_names = <<>>
  /\ known_face_encodings = <<>>
  /\ InitPipe
  /\ gallery_file = NoFile
  /\ image_store = EmptyStore
  /\ op = "init"
  /\ ret = "None"
  /\ InitHist
  /\ InitEncoder
  /\ InitDb
  /\ InitCam

NextHistory ==
  \/ CaptureStep
  \/ Tick
  \/ ClearHistory1041
  \/ ClearHistory1042
  \/ ClearHistory1043
  \/ \E c \in CooldownChoices : SetCooldown(c)
  \/ ToggleAutoSave

\* the GUI session: capture thread and UI thread interleaved
SpecHistory == InitHistory /\ [][NextHistory]_vars

\* a session in which the history is not cleared and the cooldown, set
\* before, is not changed
InitCooldown ==
  /\ known_face_names = <<>>
  /\ known_face_encodings = <<>>
  /\ InitPipe
  /\ gallery_file = NoFile
  /\ image_store = EmptyStore
  /\ op = "init"
  /\ ret = "None"
  /\ now = 0
  /\ recognition_history = <<>>
  /\ last_recognized = EmptyMap
  /\ recognition_cooldown \in CooldownChoices \cup {DefaultCooldown}
  /\ auto_save_enabled = TRUE
  /\ history_csv = <<>>
  /\ pc_cap = [t \in Loops |-> "idle"]
  /\ call = [t \in Loops |-> NoCall]
  /\ pc_ui = "idle"
  /\ InitEncoder
  /\ InitDb
  /\ InitCam

NextCooldown ==
  \/ CaptureStep
  \/ Tick
  \/ ToggleAutoSave

SpecCooldown == InitCooldown /\ [][NextCooldown]_vars

\* ------------------------------------------------- history recorder: claims
\* the call in progress returns with this step
Returns == pc_cap[1] # "idle" /\ pc_cap'[1] = "idle"

\* the history the call found, with its own event appended
WithEvent(c) == Append(SubSeq(recognition_history', 1, c.entry_len), Record(c))

\* C1: with no clear_history and no cooldown change in between, an event for
\* a name last recorded at t0 that arrives at t0 + D is appended if and only
\* if D >= recognition_cooldown; when it is dropped the history is unchanged
\* and last_recognized[name] is still t0.
C1_CooldownIff ==
  [][ /\ SubSeq(recognition_history', 1, Len(recognition_history)) = recognition_history
      /\ (Returns /\ call[1].entry_last >= 0) =>
           LET D == call[1].current_time - call[1].entry_last
               due == D >= recognition_cooldown * TicksPerSecond
           IN  /\ due <=> (recognition_history' = WithEvent(call[1]))
               /\ due => last_recognized'[call[1].name] = call[1].current_time
               /\ ~due => /\ Len(recognition_history') = call[1].entry_len
                          /\ last_recognized'[call[1].name] = call[1].entry_last
    ]_vars

\* a second event for a name was appended exactly at the end of the cooldown
C1_Witness ==
  /\ pc_cap[1] = "L368"
  /\ call[1].entry_last >= 0
  /\ call[1].current_time - call[1].entry_last = recognition_cooldown * TicksPerSecond
  /\ Len(recognition_history) = call[1].entry_len + 1
  /\ recognition_history[call[1].entry_len].name = call[1].name

\* C2: under every interleaving of the capture thread's
\* add_recognition_to_history with clear_history, set_cooldown and
\* toggle_auto_save, no record is appended closer to an earlier record of the
\* same name than the cooldown in force at the append.
C2_NoTwoWithinCooldown ==
  [][ Len(recognition_history') = Len(recognition_history) + 1 =>
        \A i \in DOMAIN recognition_history :
          recognition_history[i].name = call[1].name =>
            call[1].current_time - recognition_history[i].timestamp * TicksPerSecond
              >= recognition_cooldown * TicksPerSecond
    ]_vars

\* ------------------------------------------------- persistence: round trip
\* FaceEncoder.save_encodings: pickle.dump({'encodings': ..., 'names': ...})
EncoderPickleDump(encs, names) ==
  <<[k |-> "encodings", v |-> encs], [k |-> "names", v |-> names]>>

\* FaceEncoder.load_encodings on `file` into (encs, names): the lists after
\* the call and its outcome; nothing catches a failing data[...]
EncoderLoaded(file, encs, names) ==
  IF ~file.exists THEN [encodings |-> encs, names |-> names, ret |-> "False"]
  ELSE IF ~HasKey(file.data, "encodings")
  THEN [encodings |-> encs, names |-> names, ret |-> "raise"]
  ELSE IF ~HasKey(file.data, "names")
  THEN [encodings |-> GetKey(file.data, "encodings"), names |-> names, ret |-> "raise"]
  ELSE [encodings |-> GetKey(file.data, "encodings"),
        names |-> GetKey(file.data, "names"), ret |-> "True"]

EncoderSaveEncodings ==
  /\ encoder_file' = [exists |-> TRUE,
                      data |-> EncoderPickleDump(known_encodings, known_names)]
  /\ op' = "FaceEncoder.save_encodings"
  /\ ret' = "None"
  /\ UNCHANGED <<galleryVars, diskVars, pipeVars, histVars, dbVars, camVars, known_encodings,
                 known_names>>

EncoderLoadEncodings ==
  LET r == EncoderLoaded(encoder_file, known_encodings, known_names)
  IN  /\ known_encodings' = r.encodings
      /\ known_names' = r.names
      /\ ret' = r.ret
      /\ op' = "FaceEncoder.load_encodings"
      /\ UNCHANGED <<galleryVars, diskVars, pipeVars, histVars, dbVars, camVars,
                     encoder_file>>

\* a new object is constructed (__init__); the files stay
NewInstance ==
  /\ known_face_names' = <<>>
  /\ known_face_encodings' = <<>>
  /\ known_encodings' = <<>>
  /\ known_names' = <<>>
  /\ op' = "init"
  /\ ret' = "None"
  /\ UNCHANGED <<diskVars, pipeVars, histVars, dbVars, camVars, encoder_file>>

\* index-aligned galleries
Galleries ==
  UNION {{g \in [names : [1 .. k -> Names], encodings : [1 .. k -> Encodings]] : TRUE}
           : k \in 0 .. MaxGallery}

\* a file left by something else: no "encodings" entry
NamesOnlyFile == [exists |-> TRUE, data |-> <<[k |-> "names", v |-> <<NameUs>>]>>]

\* either object holds some gallery; its file is absent or malformed
InitRoundTrip ==
  /\ \E g \in Galleries :
       \/ /\ known_face_names = g.names
          /\ known_face_encodings = g.encodings
          /\ known_encodings = <<>>
          /\ known_names = <<>>
       \/ /\ known_face_names = <<>>
          /\ known_face_encodings = <<>>
          /\ known_encodings = g.encodings
          /\ known_names = g.names
  /\ gallery_file \in {NoFile, NamesOnlyFile}
  /\ encoder_file \in {NoFile, NamesOnlyFile}
  /\ image_store = EmptyStore
  /\ InitPipe
  /\ op = "init"
  /\ ret = "None"
  /\ InitHist
  /\ InitDb
  /\ InitCam

NextRoundTrip ==
  \/ SaveEncodings
  \/ LoadEncodings
  \/ EncoderSaveEncodings
  \/ EncoderLoadEncodings
  \/ NewInstance

SpecRoundTrip == InitRoundTrip /\ [][NextRoundTrip]_vars

\* C9: save_encodings followed by load_encodings on the same file gives back
\* the same names and the same encodings in the same order, and the load
\* returns True; for FaceRecognitionSystem and for FaceEncoder.
C9_RoundTrip ==
  [][ /\ SaveEncodings =>
           \A g \in Galleries :
             LoadedGallery(gallery_file', g.names, g.encodings)
               = [names |-> known_face_names, encodings |-> known_face_encodings,
                  ret |-> "True"]
      /\ (op = "save_encodings" /\ LoadEncodings) =>
           ret' = "True" /\ UNCHANGED galleryVars
      /\ EncoderSaveEncodings =>
           \A g \in Galleries :
             EncoderLoaded(encoder_file', g.encodings, g.names)
               = [encodings |-> known_encodings, names |-> known_names,
                  ret |-> "True"]
      /\ (op = "FaceEncoder.save_encodings" /\ EncoderLoadEncodings) =>
           ret' = "True" /\ UNCHANGED <<known_encodings, known_names>>
    ]_vars

\* a gallery of two different entries was saved and loaded back
C9_Witness ==
  /\ op = "load_encodings"
  /\ ret = "True"
  /\ Len(known_face_names) = 2
  /\ known_face_names[1] # known_face_names[2]
  /\ known_face_encodings[1] # known_face_encodings[2]
  /\ gallery_file = SavedFile(known_face_names, known_face_encodings)

\* --------------------------------------------- gallery store: a foreign disk
\* files face_encodings.pkl may be when something else wrote it: a dict
\* without "encodings", a dict without "names", and bytes that pickle.load
\* rejects (the exception comes before line 84, as for a missing "names")
EncodingsOnlyFile ==
  [exists |-> TRUE, data |-> <<[k |-> "encodings", v |-> <<EncAt(0)>>]>>]
UnreadableFile == [exists |-> TRUE, data |-> <<>>]
MalformedFiles == {NamesOnlyFile, EncodingsOnlyFile, UnreadableFile}

\* FaceRecognitionSystem.__init__ on a disk whose gallery file is absent or
\* malformed
InitDisk ==
  /\ known_face_names = <<>>
  /\ known_face_encodings = <<>>
  /\ InitPipe
  /\ gallery_file \in {NoFile} \cup MalformedFiles
  /\ image_store \in {EmptyStore, WriteImage(EmptyStore, NameSp, <<EncAt(1)>>)}
  /\ op = "init"
  /\ ret = "None"
  /\ InitHist
  /\ InitEncoder
  /\ InitDb
  /\ InitCam

SpecDisk == InitDisk /\ [][NextGallery]_vars

\* C11: after any sequence of gallery operations, failing ones included,
\* known_face_names and known_face_encodings have the same length.
C11_SameLength == Len(known_face_names) = Len(known_face_encodings)

\* C19: load_encodings on a malformed gallery file returns False, raises
\* nothing and leaves the in-memory gallery as it was before the call.
C19_MalformedLoadKeepsGallery ==
  [][(LoadEncodings /\ gallery_file \in MalformedFiles) =>
       (ret' = "False" /\ UNCHANGED galleryVars)]_vars

\* C20: removing one person never deletes the image file of another person
\* that is still in the gallery; two gallery names do not share a file.
C20_RemoveKeepsOthersFiles ==
  [][\A n \in Names :
       RemoveFace(n) =>
         \A i \in DOMAIN known_face_names' :
           (known_face_names'[i] # n
              /\ SafeName(known_face_names'[i]) \in DOMAIN image_store) =>
             SafeName(known_face_names'[i]) \in DOMAIN image_store']_vars

\* --------------------------------------------------- relational log store
dbCore == <<galleryVars, diskVars, pipeVars, histVars, encoderVars>>
dbOnly == <<dbCore, camVars>>

\* DatabaseManager.add_person(name, image_path), called on the UI thread
AddPerson(name, image_path) ==
  /\ pc_del = "idle"
  /\ person_seq < MaxPersonId
  /\ AddPersonRow(name, image_path)
  /\ op' = "add_person"
  /\ ret' = "None"
  /\ UNCHANGED <<dbOnly, recognition_logs, pc_db, db_call, pc_del, del_call>>

\* log_recognition is entered by loop t; the SELECT looks the person up
LogEnter(t, name, confidence) ==
  /\ pc_db[t] = "idle"
  /\ Len(recognition_logs) < MaxLogs
  /\ db_call' = [db_call EXCEPT ![t] = [name |-> name, confidence |-> confidence,
                                       person_id |-> SelectId(persons, name)]]
  /\ pc_db' = [pc_db EXCEPT ![t] = "selected"]
  /\ UNCHANGED <<dbCore, callVars, persons, recognition_logs, person_seq,
                 last_person_id, pc_del, del_call>>

\* video_loop calls log_recognition with a recognised face
LogSelect(t, name, confidence) ==
  /\ LogEnter(t, name, confidence)
  /\ UNCHANGED camVars

\* log_recognition, if result: INSERT INTO recognition_logs, commit; close
LogInsert(t) ==
  /\ pc_db[t] = "selected"
  /\ recognition_logs' =
       IF db_call[t].person_id # 0
       THEN Append(recognition_logs, [person_id |-> db_call[t].person_id,
                                      confidence |-> db_call[t].confidence])
       ELSE recognition_logs
  /\ pc_db' = [pc_db EXCEPT ![t] = "idle"]
  /\ db_call' = [db_call EXCEPT ![t] = NoDbCall]
  /\ UNCHANGED <<dbOnly, callVars, persons, person_seq, last_person_id, pc_del, del_call>>

\* delete_person, the SELECT
DeleteSelect(name) ==
  /\ pc_del = "idle"
  /\ del_call' = [name |-> name, confidence |-> 0, person_id |-> SelectId(persons, name)]
  /\ pc_del' = "selected"
  /\ UNCHANGED <<dbOnly, callVars, persons, recognition_logs, person_seq,
                 last_person_id, pc_db, db_call>>

\* delete_person, if result: the two DELETEs and the commit, one transaction
DeleteCommit ==
  /\ pc_del = "selected"
  /\ IF del_call.person_id # 0
     THEN /\ recognition_logs' = SelectRows(recognition_logs, del_call.person_id)
          /\ persons' = {r \in persons : r.id # del_call.person_id}
     ELSE UNCHANGED <<persons, recognition_logs>>
  /\ pc_del' = "idle"
  /\ del_call' = NoDbCall
  /\ op' = "delete_person"
  /\ ret' = "None"
  /\ UNCHANGED <<dbOnly, person_seq, last_person_id, pc_db, db_call>>

\* a DatabaseManager on a new database; the UI thread adds and deletes
\* persons, a capture loop logs recognitions
InitDbSession ==
  /\ known_face_names = <<>>
  /\ known_face_encodings = <<>>
  /\ InitPipe
  /\ gallery_file = NoFile
  /\ image_store = EmptyStore
  /\ op = "init"
  /\ ret = "None"
  /\ InitHist
  /\ InitEncoder
  /\ InitDb
  /\ InitCam

NextDb ==
  \/ \E n \in Names, p \in ImagePaths : AddPerson(n, p)
  \/ \E n \in Names, c \in EventConfidences : LogSelect(1, n, c)
  \/ LogInsert(1)
  \/ \E n \in Names : DeleteSelect(n)
  \/ DeleteCommit

SpecDb == InitDbSession /\ [][NextDb]_vars

\* C14: add_person for a name that has a row returns that row's id and
\* changes no row; for a new name it adds one row under a new id; either way
\* the name has exactly one row afterwards.
C14_AddPersonIdempotent ==
  [][\A n \in Names, p \in ImagePaths :
       AddPerson(n, p) =>
         /\ Cardinality({r \in persons' : r.name = n}) = 1
         /\ \A r \in persons' : r.name = n => r.id = last_person_id'
         /\ (\E r \in persons : r.name = n) =>
              /\ persons' = persons
              /\ last_person_id' = SelectId(persons, n)
         /\ ~(\E r \in persons : r.name = n) =>
              /\ persons \subseteq persons'
              /\ Cardinality(persons') = Cardinality(persons) + 1
              /\ \A r \in persons : r.id # last_person_id'
    ]_vars

\* add_person was called again for a name registered before another one:
\* it returned the older id
C14_Witness ==
  /\ op = "add_person"
  /\ last_person_id # 0
  /\ last_person_id < person_seq
  /\ \E r \in persons : r.id = last_person_id
  /\ Cardinality(persons) = 2

\* C15: every recognition_logs row references a person id that exists in
\* persons, also when log_recognition runs in a capture loop while the UI
\* thread runs delete_person.
C15_LogsReferencePersons ==
  \A i \in DOMAIN recognition_logs :
    \E r \in persons : r.id = recognition_logs[i].person_id

\* ------------------------------------------- the GUI's gallery and persons
\* load_faces, called once by __init__: load_encodings, and when it returned
\* False load_known_faces and, when that returned True, save_encodings
LoadFaces ==
  /\ op = "init"
  /\ LET r == LoadedGallery(gallery_file, known_face_names, known_face_encodings)
     IN  IF r.ret = "True"
         THEN /\ known_face_names' = r.names
              /\ known_face_encodings' = r.encodings
              /\ UNCHANGED diskVars
         ELSE IF DOMAIN image_store = {}
         THEN /\ known_face_names' = r.names
              /\ known_face_encodings' = r.encodings
              /\ UNCHANGED diskVars
         ELSE \E order \in Orders(DOMAIN image_store) :
                /\ known_face_names' = r.names \o LoadedNames(image_store, order)
                /\ known_face_encodings' =
                     r.encodings \o LoadedEncodings(image_store, order)
                /\ gallery_file' =
                     IF Len(known_face_names') > 0
                     THEN SavedFile(known_face_names', known_face_encodings')
                     ELSE gallery_file
                /\ UNCHANGED image_store
  /\ op' = "load_faces"
  /\ ret' = "None"
  /\ UNCHANGED <<pipeVars, histVars, encoderVars, dbVars, camVars>>

\* remove_face (GUI): the name selected in the list, system.remove_face and,
\* when it returned True, db_manager.delete_person; an exception is caught
GuiRemoveFace(name) ==
  /\ op # "init"
  /\ name \in Range(known_face_names)
  /\ RemoveEntry(name)
  /\ IF ret' = "True"
     THEN DeletePersonRows(name)
     ELSE UNCHANGED <<persons, recognition_logs>>
  /\ op' = "gui_remove_face"
  /\ UNCHANGED <<pipeVars, histVars, encoderVars, camVars, person_seq, last_person_id,
                 pc_db, db_call, pc_del, del_call>>

\* FaceRecognitionGUI.__init__ before its load_faces, at a first start: a new
\* database, no gallery file, an image folder that is empty or holds one
\* image put there under the person's name
InitGui == InitGallery

NextGui ==
  \/ LoadFaces
  \/ \E f \in Frames, n \in Names \cup {EmptyName} : op # "init" /\ GuiCaptureFace(f, n)
  \/ \E i \in ImageFiles, n \in Names \cup {EmptyName} :
       op # "init" /\ GuiAddFaceDialog(i, n)
  \/ \E n \in Names : GuiRemoveFace(n)

SpecGui == InitGui /\ [][NextGui]_vars

\* C17: in the GUI, after load_faces and any sequence of capture_face,
\* add_face_dialog and remove_face, the names of the gallery are the names
\* of the persons table.
C17_GalleryNamesArePersons ==
  op # "init" => Range(known_face_names) = {r.name : r \in persons}

\* ------------------------------------------------ camera and capture loop
\* if frame_count % 3 == 0
FrameStride == 3

\* the frames the camera delivers, as the encodings of the faces in them:
\* nobody, or one of two people who do not look alike
CamFrames == {<<>>, <<EncAt(0)>>, <<EncAt(MaxEnc)>>}

\* face_recognition.face_locations(frame): one location for each face
Locations(frame) == [i \in DOMAIN frame |-> i]

\* face_recognition.face_encodings(frame, locations): one encoding for each
\* location handed in; a location taken from another frame encodes what is
\* there, which looks like nobody
EncodeAt(frame, locations) ==
  [i \in DOMAIN locations |->
     IF locations[i] \in DOMAIN frame THEN frame[locations[i]] ELSE EncAt(MaxEnc + 1)]

\* recognize_face raises IndexError: the best match's index is beyond the
\* end of known_face_names
RecognizeRaises(names, encs, q) ==
  /\ Len(encs) > 0
  /\ Accept(FaceDistances(encs, q)[ArgMin(FaceDistances(encs, q))])
  /\ ArgMin(FaceDistances(encs, q)) > Len(names)

histData == <<now, recognition_history, last_recognized, recognition_cooldown,
              auto_save_enabled, history_csv, pc_cap, call>>
camOnly == <<galleryVars, diskVars, callVars, histVars, encoderVars, dbVars, logged,
             distance_calls>>

\* start_camera: a VideoCapture is made; if it is opened, is_running is set
\* and a new thread runs video_loop
StartCamera ==
  /\ pc_ui = "idle"
  /\ start_btn = "normal"
  /\ \E opened \in BOOLEAN :
       IF opened
       THEN \E t \in Loops :
              /\ pc_loop[t] \in {"none", "ended"}
              /\ \A u \in 1 .. t - 1 : pc_loop[u] \notin {"none", "ended"}
              /\ cap' = "open"
              /\ is_running' = TRUE
              /\ start_btn' = "disabled"
              /\ pc_loop' = [pc_loop EXCEPT ![t] = "L445"]
              /\ loop' = [loop EXCEPT ![t] = NoLoop]
              /\ UNCHANGED <<video_label, face_locations, ui_call>>
       ELSE /\ cap' = "closed"
            /\ UNCHANGED <<is_running, video_label, start_btn, face_locations, pc_loop,
                           loop, ui_call>>
  /\ op' = "start_camera"
  /\ ret' = "None"
  /\ UNCHANGED <<galleryVars, diskVars, pipeVars, histVars, encoderVars, dbVars>>

\* stop_camera (the Stop button), line 424: self.is_running = False
StopCamera ==
  /\ pc_ui = "idle"
  /\ start_btn = "disabled"
  /\ is_running' = FALSE
  /\ pc_ui' = "L426"
  /\ ui_call' = NoUiCall
  /\ UNCHANGED <<galleryVars, diskVars, callVars, pipeVars, histData, encoderVars, dbVars,
                 cap, video_label, start_btn, face_locations, pc_loop, loop>>

\* on_closing: save_history if there is history, then stop_camera's line 424
OnClosing ==
  /\ pc_ui = "idle"
  /\ history_csv' = IF recognition_history # <<>> THEN recognition_history
                    ELSE history_csv
  /\ is_running' = FALSE
  /\ pc_ui' = "L426"
  /\ ui_call' = [NoUiCall EXCEPT !.closing = TRUE]
  /\ UNCHANGED <<galleryVars, diskVars, callVars, pipeVars, encoderVars, dbVars, now,
                 recognition_history, last_recognized, recognition_cooldown,
                 auto_save_enabled, pc_cap, call,
                 cap, video_label, start_btn, face_locations, pc_loop, loop>>

\* stop_camera, lines 426-427: if self.cap: self.cap.release()
StopCamera427 ==
  /\ pc_ui = "L426"
  /\ cap' = IF cap = "None" THEN cap ELSE "released"
  /\ pc_ui' = "L430"
  /\ UNCHANGED <<galleryVars, diskVars, callVars, pipeVars, histData, encoderVars, dbVars,
                 is_running, video_label, start_btn, face_locations, pc_loop, loop,
                 ui_call>>

\* stop_camera, lines 430-438: the buttons, then the label shows "Camera
\* Off"; on_closing goes on to root.destroy()
StopCamera430 ==
  /\ pc_ui = "L430"
  /\ start_btn' = "normal"
  /\ video_label' = "Camera Off"
  /\ pc_ui' = IF ui_call.closing THEN "destroyed" ELSE "idle"
  /\ ui_call' = NoUiCall
  /\ op' = "stop_camera"
  /\ ret' = "None"
  /\ UNCHANGED <<galleryVars, diskVars, pipeVars, histData, encoderVars, dbVars,
                 is_running, cap, face_locations, pc_loop, loop>>

\* video_loop, line 445: while self.is_running
LoopWhile445(t) ==
  /\ pc_loop[t] = "L445"
  /\ pc_loop' = [pc_loop EXCEPT ![t] = IF is_running THEN "L447" ELSE "ended"]
  /\ loop' = IF is_running THEN loop ELSE [loop EXCEPT ![t] = NoLoop]
  /\ UNCHANGED <<camOnly, face_encodings, face_names, face_confidences,
                 is_running, cap, video_label, start_btn, face_locations, ui_call>>

LoopRead447Retry(t) ==
  /\ pc_loop[t] = "L447"
  /\ \E ok \in (IF cap = "open" THEN BOOLEAN ELSE {FALSE}) :
       IF ~ok
       THEN /\ pc_loop' = [pc_loop EXCEPT ![t] = "L445"]
            /\ loop' = loop
       ELSE \E frame \in CamFrames :
              LET count == (loop[t].frame_count + 1) % FrameStride
              IN  /\ loop' = [loop EXCEPT ![t].frame_count = count, ![t].frame = frame]
                  /\ pc_loop' = [pc_loop EXCEPT ![t] = IF count = 0 THEN "L459"
                                                       ELSE "L496"]
  /\ UNCHANGED <<camOnly, face_encodings, face_names, face_confidences,
                 is_running, cap, video_label, start_btn, face_locations, ui_call>>

\* lines 447-455: ret, frame = self.cap.read(); a failed read breaks out of
\* the loop; frame_count += 1; every third frame is processed
LoopRead447(t) ==
  /\ pc_loop[t] = "L447"
  /\ \E ok \in (IF cap = "open" THEN BOOLEAN ELSE {FALSE}) :
       IF ~ok
       THEN /\ pc_loop' = [pc_loop EXCEPT ![t] = "ended"]
            /\ loop' = [loop EXCEPT ![t] = NoLoop]
       ELSE \E frame \in CamFrames :
              LET count == (loop[t].frame_count + 1) % FrameStride
              IN  /\ loop' = [loop EXCEPT ![t].frame_count = count, ![t].frame = frame]
                  /\ pc_loop' = [pc_loop EXCEPT ![t] = IF count = 0 THEN "L459"
                                                       ELSE "L496"]
  /\ UNCHANGED <<camOnly, face_encodings, face_names, face_confidences,
                 is_running, cap, video_label, start_btn, face_locations, ui_call>>

\* lines 459-463: self.system.face_locations = face_locations(...)
LoopDetect459(t) ==
  /\ pc_loop[t] = "L459"
  /\ face_locations' = Locations(loop[t].frame)
  /\ pc_loop' = [pc_loop EXCEPT ![t] = "L465"]
  /\ UNCHANGED <<camOnly, face_encodings, face_names, face_confidences,
                 is_running, cap, video_label, start_btn, loop, ui_call>>

\* lines 465-475 and 490-493: with locations, the encodings are computed,
\* the names and confidences emptied and the for loop begins on the list of
\* encodings; with none, the three lists are emptied
LoopEncode465(t) ==
  /\ pc_loop[t] = "L465"
  /\ IF face_locations # <<>>
     THEN /\ face_encodings' = EncodeAt(loop[t].frame, face_locations)
          /\ loop' = [loop EXCEPT ![t].iter = face_encodings']
          /\ pc_loop' = [pc_loop EXCEPT ![t] = "L475"]
     ELSE /\ face_encodings' = <<>>
          /\ loop' = loop
          /\ pc_loop' = [pc_loop EXCEPT ![t] = "L496"]
  /\ face_names' = <<>>
  /\ face_confidences' = <<>>
  /\ UNCHANGED <<camOnly, is_running, cap, video_label, start_btn, face_locations,
                 ui_call>>

\* lines 475-481: the next encoding of the for loop goes to recognize_face;
\* its IndexError is caught at line 521 and the while loop goes on; else the
\* name and the confidence are appended
LoopFor475(t) ==
  /\ pc_loop[t] = "L475"
  /\ pc_db[t] = "idle"
  /\ IF loop[t].iter = <<>>
     THEN /\ pc_loop' = [pc_loop EXCEPT ![t] = "L496"]
          /\ UNCHANGED <<loop, face_names, face_confidences>>
     ELSE IF RecognizeRaises(known_face_names, known_face_encodings, Head(loop[t].iter))
     THEN /\ pc_loop' = [pc_loop EXCEPT ![t] = "L445"]
          /\ loop' = [loop EXCEPT ![t] = [NoLoop EXCEPT !.frame_count =
                                                          loop[t].frame_count]]
          /\ UNCHANGED <<face_names, face_confidences>>
     ELSE LET r == RecognizeFace(known_face_names, known_face_encodings,
                                 Head(loop[t].iter))
          IN  /\ face_names' = Append(face_names, r.name)
              /\ face_confidences' = Append(face_confidences, r.confidence)
              /\ loop' = [loop EXCEPT ![t].iter = Tail(loop[t].iter),
                                      ![t].name = r.name,
                                      ![t].confidence = r.confidence]
              /\ pc_loop' = [pc_loop EXCEPT ![t] = IF IsLogged(r) THEN "L482"
                                                   ELSE "L475"]
  /\ UNCHANGED <<camOnly, face_encodings, is_running, cap, video_label, start_btn,
                 face_locations, ui_call>>

\* line 482: self.add_recognition_to_history(name, confidence)
LoopHistory482(t) ==
  /\ pc_loop[t] = "L482"
  /\ HistEnter(t, loop[t].name, loop[t].confidence)
  /\ pc_loop' = [pc_loop EXCEPT ![t] = "L486"]
  /\ UNCHANGED <<is_running, cap, video_label, start_btn, face_locations, loop, ui_call>>

\* lines 485-487, after add_recognition_to_history returned:
\* self.db_manager.log_recognition(name, confidence / 100)
LoopLog486(t) ==
  /\ pc_loop[t] = "L486"
  /\ pc_cap[t] = "idle"
  /\ LogEnter(t, loop[t].name, loop[t].confidence)
  /\ pc_loop' = [pc_loop EXCEPT ![t] = "L475"]
  /\ UNCHANGED <<is_running, cap, video_label, start_btn, face_locations, loop, ui_call>>

\* line 496: self.system.draw_results(frame) reads the pipeline state
LoopDraw496(t) ==
  /\ pc_loop[t] = "L496"
  /\ pc_loop' = [pc_loop EXCEPT ![t] = "L515"]
  /\ UNCHANGED <<camOnly, face_encodings, face_names, face_confidences,
                 is_running, cap, video_label, start_btn, face_locations, loop, ui_call>>

\* lines 515-519: the frame is put on the video label and
\* update_detection_info reads the pipeline state; the iteration's frame is
\* not used again
LoopShow515(t) ==
  /\ pc_loop[t] = "L515"
  /\ video_label' = "frame"
  /\ pc_loop' = [pc_loop EXCEPT ![t] = "L445"]
  /\ loop' = [loop EXCEPT ![t] = [NoLoop EXCEPT !.frame_count = loop[t].frame_count]]
  /\ UNCHANGED <<camOnly, face_encodings, face_names, face_confidences,
                 is_running, cap, start_btn, face_locations, ui_call>>

\* the steps of capture loop t that end in the pipeline state
LoopFrame(t) ==
  \/ LoopWhile445(t)
  \/ LoopRead447(t)
  \/ LoopDetect459(t)
  \/ LoopEncode465(t)
  \/ LoopFor475(t)
  \/ LoopDraw496(t)
  \/ LoopShow515(t)

\* the steps of capture loop t that record a recognised face
LoopRecord(t) ==
  \/ LoopHistory482(t)
  \/ HistCheck353(t)
  \/ HistDiff354(t)
  \/ HistCooldown355(t)
  \/ HistAppend367(t)
  \/ HistStamp368(t)
  \/ HistAutoSave371(t)
  \/ HistSave372(t)
  \/ LoopLog486(t)
  \/ LogInsert(t)

\* a session of the GUI with nobody registered: the camera is started and
\* stopped, the window closed
InitCamera == InitHistory

NextCamera ==
  \/ StartCamera
  \/ StopCamera
  \/ StopCamera427
  \/ StopCamera430
  \/ OnClosing
  \/ \E t \in Loops : LoopFrame(t)

SpecCamera == InitCamera /\ [][NextCamera]_vars

\* C16: on every path by which capturing ends the capture device is
\* released: once a capture loop has ended and stop_camera is not under way,
\* the device is not held.
C16_EndedLoopReleased ==
  \A t \in Loops :
    (pc_loop[t] = "ended" /\ pc_ui \in {"idle", "destroyed"}) => cap # "open"

\* ------------------------------------- capture loop and gallery, two threads
\* remove_face (GUI) while a capture loop runs, up to line 365 of
\* FaceRecognitionSystem.remove_face: the name selected is deleted from
\* known_face_names
GuiRemove365(name) ==
  /\ pc_ui = "idle"
  /\ name \in Range(known_face_names)
  /\ ui_call' = [NoUiCall EXCEPT !.name = name,
                                 !.idx = IndexOf(known_face_names, name)]
  /\ known_face_names' = RemoveAt(known_face_names, IndexOf(known_face_names, name))
  /\ pc_ui' = "L366"
  /\ UNCHANGED <<known_face_encodings, diskVars, callVars, pipeVars, histData,
                 encoderVars, dbVars, is_running, cap, video_label, start_btn,
                 face_locations, pc_loop, loop>>

\* remove_face (GUI), from line 366 on: the encoding is deleted, the image
\* files removed, the gallery saved and delete_person called; an IndexError
\* of the del is caught by the handler
GuiRemove366 ==
  /\ pc_ui = "L366"
  /\ IF ui_call.idx > Len(known_face_encodings)
     THEN /\ ret' = "raise"
          /\ UNCHANGED <<known_face_encodings, diskVars, persons, recognition_logs>>
     ELSE /\ known_face_encodings' = RemoveAt(known_face_encodings, ui_call.idx)
          /\ image_store' = DeleteImage(DeleteImage(image_store, ui_call.name),
                                        SafeName(ui_call.name))
          /\ gallery_file' = SavedFile(known_face_names, known_face_encodings')
          /\ DeletePersonRows(ui_call.name)
          /\ ret' = "True"
  /\ op' = "gui_remove_face"
  /\ pc_ui' = "idle"
  /\ ui_call' = NoUiCall
  /\ UNCHANGED <<known_face_names, pipeVars, histData, encoderVars, person_seq,
                 last_person_id, pc_db, db_call, pc_del, del_call, is_running, cap,
                 video_label, start_btn, face_locations, pc_loop, loop>>

\* capture_face needs the camera running and reads a frame of its own
CameraOn == is_running /\ cap = "open" /\ pc_ui = "idle"

\* a session of the GUI on a first start: the camera is started, people are
\* registered from the camera and removed while the capture loop runs
InitPipeline == InitHistory

NextPipeline ==
  \/ StartCamera
  \/ \E t \in Loops : LoopFrame(t)
  \/ \E t \in Loops : LoopRecord(t)
  \/ \E f \in CamFrames, n \in Names : CameraOn /\ GuiCaptureFace(f, n)
  \/ \E n \in Names : GuiRemove365(n)
  \/ GuiRemove366

SpecPipeline == InitPipeline /\ [][NextPipeline]_vars

\* C13: whenever draw_results or update_detection_info reads the pipeline
\* state, face_locations, face_encodings, face_names and face_confidences
\* have the same length, also on the frames after an exception caught in the
\* capture loop.
C13_AlignedWhenDrawn ==
  \A t \in Loops :
    pc_loop[t] \in {"L496", "L515"} =>
      /\ Len(face_encodings) = Len(face_locations)
      /\ Len(face_names) = Len(face_locations)
      /\ Len(face_confidences) = Len(face_locations)

\* C18: a row is inserted into recognition_logs for an event only if the
\* event was appended to recognition_history (nothing clears the history in
\* this session), so there are never more rows than records.
C18_RowsHaveRecords == Len(recognition_logs) <= Len(recognition_history)

\* ------------------------------------------ capture loops and history, time
\* A session with one person registered from the camera.  start_camera,
\* stop_camera and start_camera again before the first thread tested
\* is_running leave two capture loops alive; each has processed a frame and
\* recognised the person in it
InitSession ==
  /\ known_face_names = <<NameSp>>
  /\ known_face_encodings = <<EncAt(0)>>
  /\ face_encodings = <<EncAt(0)>>
  /\ face_names = <<NameSp>>
  /\ face_confidences = <<Confidence(0)>>
  /\ logged = <<>>
  /\ distance_calls = 0
  /\ gallery_file = SavedFile(<<NameSp>>, <<EncAt(0)>>)
  /\ image_store = WriteImage(EmptyStore, NameUs, <<EncAt(0)>>)
  /\ op = "start_camera"
  /\ ret = "None"
  /\ InitHist
  /\ InitEncoder
  /\ persons = {[id |-> 1, name |-> NameSp, image_path |-> NameUs]}
  /\ recognition_logs = <<>>
  /\ person_seq = 1
  /\ last_person_id = 0
  /\ pc_db = [t \in Loops |-> "idle"]
  /\ db_call = [t \in Loops |-> NoDbCall]
  /\ pc_del = "idle"
  /\ del_call = NoDbCall
  /\ is_running = TRUE
  /\ cap = "open"
  /\ video_label = "frame"
  /\ start_btn = "disabled"
  /\ face_locations = <<1>>
  /\ pc_loop = [t \in Loops |-> IF t <= 2 THEN "L482" ELSE "none"]
  /\ loop = [t \in Loops |->
               IF t <= 2
               THEN [NoLoop EXCEPT !.frame = <<EncAt(0)>>, !.name = NameSp,
                                   !.confidence = Confidence(0)]
               ELSE NoLoop]
  /\ ui_call = NoUiCall

\* the two loops record the faces they recognised while the clock advances
NextSession ==
  \/ \E t \in Loops : LoopRecord(t)
  \/ Tick

SpecSession == InitSession /\ [][NextSession]_vars

\* C12: the timestamps of the records of recognition_history do not decrease
\* along the list.
C12_TimestampsNonDecreasing ==
  \A i, j \in DOMAIN recognition_history :
    i < j => recognition_history[i].timestamp <= recognition_history[j].timestamp

\* ------------------------------------------- capture loops: further claims
\* the capture loops that are executing video_loop
RunningLoops == {t \in Loops : pc_loop[t] \notin {"none", "ended"}}

\* C24: at most one capture loop (video_loop thread) is executing at any
\* time, for every sequence of start_camera and stop_camera, a start_camera
\* right after a stop_camera included.
C24_OneCaptureLoop == Cardinality(RunningLoops) <= 1

\* C28: once stop_camera has completed and until the next start_camera, the
\* video label shows "Camera Off": no capture loop puts a frame on it.
C28_OffStaysOff ==
  (op = "stop_camera" /\ pc_ui = "idle") => video_label = "Camera Off"

\* C27: while the UI thread runs remove_face or an add-face operation, a
\* recognize_face call of a capture loop never raises IndexError: it never
\* finds known_face_names shorter than known_face_encodings.
C27_RecognizeNeverRaises ==
  [][\A t \in Loops :
       (LoopFor475(t) /\ loop[t].iter # <<>>) =>
         ~RecognizeRaises(known_face_names, known_face_encodings, Head(loop[t].iter))
    ]_vars

\* ------------------------------------------------ every third frame, counted
\* the frames a capture loop reads in a run
MaxFrames == 6

EveryThirdFromFirst(frame_count) == frame_count % FrameStride = 1

\* if frame_count % 3 == 0
EveryThird(frame_count) == frame_count % FrameStride = 0

\* video_loop, lines 447-455, with frame_count kept as the integer it is (the
\* other sessions keep its residue, the only part of it line 455 reads)
LoopRead447Counted(t) ==
  /\ pc_loop[t] = "L447"
  /\ \E ok \in (IF cap = "open" THEN BOOLEAN ELSE {FALSE}) :
       IF ~ok
       THEN /\ pc_loop' = [pc_loop EXCEPT ![t] = "ended"]
            /\ loop' = [loop EXCEPT ![t] = NoLoop]
       ELSE \E frame \in CamFrames :
              LET count == loop[t].frame_count + 1
              IN  /\ count <= MaxFrames
                  /\ loop' = [loop EXCEPT ![t].frame_count = count, ![t].frame = frame]
                  /\ pc_loop' = [pc_loop EXCEPT ![t] = IF EveryThird(count) THEN "L459"
                                                       ELSE "L496"]
  /\ UNCHANGED <<camOnly, face_encodings, face_names, face_confidences,
                 is_running, cap, video_label, start_btn, face_locations, ui_call>>

\* the keys cv2.waitKey(1) is made to return: none, or 'q'
Keys == {"", "q"}

\* run_recognition (console), one pass of `while True`, lines 148-207: the
\* frame is read and counted, every third one is processed, every one is
\* drawn and shown; a failed read or the key 'q' leaves the loop and the
\* capture is released
RunRecognition149 ==
  /\ pc_loop[1] = "L148"
  /\ \E ok \in BOOLEAN :
       IF ~ok
       THEN /\ pc_loop' = [pc_loop EXCEPT ![1] = "ended"]
            /\ loop' = [loop EXCEPT ![1] = NoLoop]
            /\ cap' = "released"
            /\ UNCHANGED <<face_locations, face_encodings, face_names, face_confidences>>
       ELSE \E frame \in CamFrames, key \in Keys :
              LET count == loop[1].frame_count + 1
                  locations == Locations(frame)
                  encs == EncodeAt(frame, locations)
                  rs == [i \in DOMAIN encs |->
                           RecognizeFace(known_face_names, known_face_encodings, encs[i])]
              IN  /\ count <= MaxFrames
                  /\ IF EveryThird(count)
                     THEN /\ face_locations' = locations
                          /\ face_encodings' = IF locations # <<>> THEN encs ELSE <<>>
                          /\ face_names' = [i \in DOMAIN encs |-> rs[i].name]
                          /\ face_confidences' = [i \in DOMAIN encs |-> rs[i].confidence]
                     ELSE UNCHANGED <<face_locations, face_encodings, face_names,
                                      face_confidences>>
                  /\ IF key = "q"
                     THEN /\ pc_loop' = [pc_loop EXCEPT ![1] = "ended"]
                          /\ loop' = [loop EXCEPT ![1] = NoLoop]
                          /\ cap' = "released"
                     ELSE /\ pc_loop' = pc_loop
                          /\ loop' = [loop EXCEPT ![1].frame_count = count,
                                                  ![1].frame = frame]
                          /\ cap' = cap
  /\ UNCHANGED <<camOnly, is_running, video_label, start_btn, ui_call>>

\* Either the GUI just after start_camera, with nobody registered, or the
\* console program entering run_recognition with a gallery of at most one
\* person: the capture is open and the loop has read no frame
InitStride ==
  /\ \E gui \in BOOLEAN :
       /\ known_face_names \in (IF gui THEN {<<>>} ELSE {<<>>, <<NameSp>>})
       /\ known_face_encodings = [i \in DOMAIN known_face_names |-> EncAt(0)]
       /\ gallery_file = IF known_face_names = <<>> THEN NoFile
                         ELSE SavedFile(known_face_names, known_face_encodings)
       /\ op = IF gui THEN "start_camera" ELSE "run_recognition"
       /\ is_running = gui
       /\ start_btn = IF gui THEN "disabled" ELSE "normal"
       /\ pc_loop = [t \in Loops |-> IF t > 1 THEN "none"
                                     ELSE IF gui THEN "L445" ELSE "L148"]
  /\ image_store = EmptyStore
  /\ InitPipe
  /\ ret = "None"
  /\ InitHist
  /\ InitEncoder
  /\ InitDb
  /\ cap = "open"
  /\ video_label = "init"
  /\ face_locations = <<>>
  /\ loop = [t \in Loops |-> NoLoop]
  /\ ui_call = NoUiCall

NextStride ==
  \/ LoopWhile445(1)
  \/ LoopRead447Counted(1)
  \/ LoopDetect459(1)
  \/ LoopEncode465(1)
  \/ LoopFor475(1)
  \/ LoopDraw496(1)
  \/ LoopShow515(1)
  \/ RunRecognition149

SpecStride == InitStride /\ [][NextStride]_vars

pipeState == <<face_locations, face_encodings, face_names, face_confidences>>

\* C23: in both capture loops the k-th frame read (k from 1) is detected,
\* encoded and matched if and only if k mod 3 = 0; on every other frame the
\* pipeline state is left as it was and only drawn again.
C23_EveryThirdFrame ==
  [][LET k == loop'[1].frame_count
         read == k = loop[1].frame_count + 1
     IN  /\ (read /\ pc_loop[1] = "L447") => (pc_loop'[1] = "L459" <=> k % 3 = 0)
         /\ (read /\ pc_loop[1] = "L447") => (pc_loop'[1] = "L496" <=> k % 3 # 0)
         /\ pc_loop[1] \in {"L445", "L447", "L496", "L515"} => UNCHANGED pipeState
         /\ (read /\ pc_loop[1] = "L148" /\ k % 3 # 0) => UNCHANGED pipeState
         /\ (read /\ pc_loop[1] = "L148" /\ k % 3 = 0) =>
              /\ face_locations' = Locations(loop'[1].frame)
              /\ Len(face_encodings') = Len(loop'[1].frame)
              /\ Len(face_names') = Len(loop'[1].frame)
              /\ Len(face_confidences') = Len(loop'[1].frame)
         /\ (pc_loop[1] = "L459" /\ pc_loop'[1] # "L459") =>
              /\ loop[1].frame_count % 3 = 0
              /\ face_locations' = Locations(loop[1].frame)
    ]_vars

\* the fifth frame shows nobody and is drawn with the face found in the third
C23_Witness ==
  /\ pc_loop[1] = "L496"
  /\ loop[1].frame_count = 5
  /\ loop[1].frame = <<>>
  /\ face_locations # <<>>
  /\ Len(face_names) = Len(face_locations)

\* ------------------------------------------------ capture loops: termination
\* the capture threads are scheduled fairly: a loop that can take a step
\* takes one
SpecCameraFair == SpecCamera /\ \A t \in Loops : WF_vars(LoopFrame(t))

\* C26: a read from a capture that is not open fails and ends the loop; and
\* if from some time on is_running stays False (stop_camera with no later
\* start_camera), every capture loop has exited from some time on and reads
\* no further frame.
C26_LoopTerminates ==
  /\ [][\A t \in Loops :
          (pc_loop[t] = "L447" /\ cap # "open" /\ pc_loop'[t] # "L447") =>
            pc_loop'[t] = "ended"]_vars
  /\ \A t \in Loops :
       <>[](~is_running) => <>[](pc_loop[t] \in {"none", "ended"})

\* stop_camera completed while a loop was inside an iteration; the loop showed
\* its frame and then left at line 445
C26_Witness ==
  /\ op = "stop_camera"
  /\ pc_ui = "idle"
  /\ ~is_running
  /\ video_label = "frame"
  /\ pc_loop[1] = "ended"

\* ------------------------------------------- history recorder: persistence
\* C25: a call of add_recognition_to_history that appended a record and found
\* auto-save enabled leaves the CSV holding the whole of recognition_history,
\* in order; one that found it disabled returns with the CSV as it was; no
\* other line of the call writes the file.
C25_AutoSaveWritesAll ==
  [][/\ (pc_cap[1] = "save" /\ pc_cap'[1] = "idle") =>
          /\ history_csv' = recognition_history'
          /\ recognition_history'[Len(recognition_history')] = Record(call[1])
     /\ (pc_cap[1] = "L371" /\ pc_cap'[1] # "L371") =>
          /\ history_csv' = history_csv
          /\ pc_cap'[1] = IF auto_save_enabled THEN "save" ELSE "idle"
     /\ pc_cap[1] \in {"idle", "L353", "L354", "L355", "L367", "L368"} =>
          history_csv' = history_csv
    ]_vars

\* the first record was appended and saved, the second appended with
\* auto-save disabled: the CSV still holds the first only
C25_Witness ==
  /\ pc_cap[1] = "idle"
  /\ ~auto_save_enabled
  /\ Len(recognition_history) = 2
  /\ history_csv = SubSeq(recognition_history, 1, 1)

HistSaveFailsRollback372(t) ==
  /\ pc_cap[t] = "save"
  /\ history_csv' \in {history_csv, <<>>}
  /\ recognition_history' = SubSeq(recognition_history, 1, Len(recognition_history) - 1)
  /\ pc_cap' = [pc_cap EXCEPT ![t] = "idle"]
  /\ call' = [call EXCEPT ![t] = NoCall]
  /\ UNCHANGED <<capOnly, last_recognized>>

\* line 372 when save_history fails: makedirs or open raises and the file is
\* as it was, or the write raises and the file opened with 'w' is left empty;
\* save_history catches the exception (line 344) and the call goes on to
\* return
HistSaveFails372(t) ==
  /\ pc_cap[t] = "save"
  /\ history_csv' \in {history_csv, <<>>}
  /\ pc_cap' = [pc_cap EXCEPT ![t] = "idle"]
  /\ call' = [call EXCEPT ![t] = NoCall]
  /\ UNCHANGED <<capOnly, recognition_history, last_recognized>>

\* a session with auto-save left enabled on a disk that can fail
NextSaveFault ==
  \/ CaptureStep
  \/ HistSaveFails372(1)
  \/ Tick

SpecSaveFault == InitCooldown /\ [][NextSaveFault]_vars

\* C22: when the save of the history fails inside add_recognition_to_history
\* the call returns as usual, the new record is still the last of
\* recognition_history and last_recognized[name] is the event's time.
C22_SaveFailureSwallowed ==
  [][HistSaveFails372(1) =>
       /\ pc_cap'[1] = "idle"
       /\ recognition_history' = recognition_history
       /\ Len(recognition_history') = call[1].entry_len + 1
       /\ recognition_history'[Len(recognition_history')] = Record(call[1])
       /\ call[1].name \in DOMAIN last_recognized'
       /\ last_recognized'[call[1].name] = call[1].current_time
    ]_vars

\* a call returned after a failed save: the record is in memory and stamped,
\* the file does not hold it
C22_Witness ==
  /\ pc_cap[1] = "idle"
  /\ Len(recognition_history) >= 1
  /\ history_csv # recognition_history
  /\ recognition_history[Len(recognition_history)].name \in DOMAIN last_recognized

\* ------------------------------------------------------ closing the window
\* the window is closed while the capture loops record the person they
\* recognised; auto-save is switched on and off from the menu
NextClosing ==
  \/ \E t \in Loops : LoopRecord(t)
  \/ ToggleAutoSave
  \/ OnClosing
  \/ StopCamera427
  \/ StopCamera430

SpecClosing == InitSession /\ [][NextClosing]_vars

\* C29: when on_closing destroys the window, every record of
\* recognition_history has been written to the history CSV, with auto-save
\* enabled or not, and with a capture loop recording meanwhile.
C29_ClosingSavesAll ==
  [][(pc_ui # "destroyed" /\ pc_ui' = "destroyed") =>
       history_csv' = recognition_history']_vars

\* ------------------------------------------ gallery store: writes that fail
\* how the writes of an operation end: all succeed; pil_image.save raises;
\* open(filename, 'wb') in save_encodings raises; pickle.dump raises after
\* the file was opened and emptied
WriteOutcomes == {"ok", "image_fails", "open_fails", "dump_fails"}

\* the gallery file after a save_encodings that raised
FailedFile(io) ==
  IF io = "open_fails" THEN gallery_file ELSE [exists |-> TRUE, data |-> <<>>]

\* lines 318-331 and 345-359, the same in add_face_from_frame and
\* add_face_from_image, for the faces found: the image is written, the first
\* encoding and the name are appended, the gallery saved.  An exception is
\* caught in add_face_from_image, which then returns False; nothing catches
\* it in add_face_from_frame.
AddEntryIO(faces, name, io, caught) ==
  IF faces = <<>>
  THEN /\ ret' = "False"
       /\ UNCHANGED <<galleryVars, diskVars>>
  ELSE IF io = "image_fails"
  THEN /\ ret' = IF caught THEN "False" ELSE "raise"
       /\ UNCHANGED <<galleryVars, diskVars>>
  ELSE /\ image_store' = WriteImage(image_store, SafeName(name), faces)
       /\ known_face_encodings' = Append(known_face_encodings, faces[1])
       /\ known_face_names' = Append(known_face_names, name)
       /\ IF io = "ok"
          THEN /\ gallery_file' = SavedFile(known_face_names', known_face_encodings')
               /\ ret' = "True"
          ELSE /\ gallery_file' = FailedFile(io)
               /\ ret' = IF caught THEN "False" ELSE "raise"

AddFaceFromFrameIO(frame, name, io) ==
  /\ HasRoom
  /\ AddEntryIO(frame, name, io, FALSE)
  /\ op' = "add_face_from_frame"
  /\ UNCHANGED <<pipeVars, histVars, encoderVars, dbVars, camVars>>

\* Image.open raises on an unreadable image, inside the try
AddFaceFromImageIO(img, name, io) ==
  /\ HasRoom
  /\ AddEntryIO(IF img.readable THEN img.faces ELSE <<>>, name, io, TRUE)
  /\ op' = "add_face_from_image"
  /\ UNCHANGED <<pipeVars, histVars, encoderVars, dbVars, camVars>>

\* remove_face: the two dels and the os.remove calls come before
\* save_encodings, whose exception nothing catches
RemoveFaceIO(name, io) ==
  /\ io # "image_fails"
  /\ IF io = "ok" \/ name \notin Range(known_face_names)
     THEN RemoveEntry(name)
     ELSE LET idx == IndexOf(known_face_names, name)
          IN  /\ known_face_names' = RemoveAt(known_face_names, idx)
              /\ known_face_encodings' = RemoveAt(known_face_encodings, idx)
              /\ image_store' = DeleteImage(DeleteImage(image_store, name), SafeName(name))
              /\ gallery_file' = FailedFile(io)
              /\ ret' = "raise"
  /\ op' = "remove_face"
  /\ UNCHANGED <<pipeVars, histVars, encoderVars, dbVars, camVars>>

NextFaultyDisk ==
  \/ \E f \in Frames, n \in Names, io \in WriteOutcomes : AddFaceFromFrameIO(f, n, io)
  \/ \E i \in ImageFiles, n \in Names, io \in WriteOutcomes : AddFaceFromImageIO(i, n, io)
  \/ \E f \in Frames, n \in Names \cup {EmptyName} : CaptureNewFace(f, n)
  \/ \E n \in Names, io \in WriteOutcomes : RemoveFaceIO(n, io)

SpecFaultyDisk == InitGallery /\ [][NextFaultyDisk]_vars

\* the gallery file holds the two lists of the gallery and nothing else
FileIsGallery(file, names, encs) ==
  /\ file.exists
  /\ Len(file.data) = 2
  /\ HasKey(file.data, "names")
  /\ HasKey(file.data, "encodings")
  /\ GetKey(file.data, "names") = names
  /\ GetKey(file.data, "encodings") = encs

\* C21: after add_face_from_frame, add_face_from_image or remove_face
\* returned True, and after capture_new_face added a face, the gallery file
\* holds exactly the names and encodings lists of the gallery as they now
\* are.
C21_FileHoldsGallery ==
  [][((op' \in {"add_face_from_frame", "add_face_from_image", "remove_face"}
         /\ ret' = "True")
      \/ (op' = "capture_new_face"
            /\ Len(known_face_names') = Len(known_face_names) + 1)) =>
       FileIsGallery(gallery_file', known_face_names', known_face_encodings')
    ]_vars

\* remove_face returned True on a gallery of two and the file holds the one
\* entry that is left
C21_Witness ==
  /\ op = "remove_face"
  /\ ret = "True"
  /\ Len(known_face_names) = 1
  /\ FileIsGallery(gallery_file, known_face_names, known_face_encodings)

\* C30: add_face_from_image and add_face_from_frame return True if and only
\* if the gallery gained exactly one entry; when either returns False, a
\* failed write of the image or of the gallery file included,
\* known_face_names and known_face_encodings are as before the call.
C30_FalseLeavesGallery ==
  [][op' \in {"add_face_from_frame", "add_face_from_image"} =>
       /\ ret' = "False" => UNCHANGED galleryVars
       /\ ret' = "True" =>
            /\ Len(known_face_names') = Len(known_face_names) + 1
            /\ Len(known_face_encodings') = Len(known_face_encodings) + 1
    ]_vars

====
